---- MODULE Spec2Model ----
(***************************************************************************)
(* Model of tools/bootstrap.py: the repository convergence engine.         *)
(*                                                                         *)
(* main() loads a manifest of repo specs, sorts them by name and, for each *)
(* one, clones or updates deps/<name>, configures a credential-bearing     *)
(* push URL and updates submodules.  Failures are collected per repo.      *)
(*                                                                         *)
(* Text is modelled as a sequence of pieces.  Data that the program parses *)
(* or rewrites (names, URLs, tokens) is spelled one character per piece;   *)
(* fixed program text (message templates, git sub-commands and options)    *)
(* is one piece per literal.  Substring search and replacement work on     *)
(* pieces, so a token is only ever looked for inside data, and the token   *)
(* alphabet is disjoint from the single-character pieces of names, hosts   *)
(* and paths.                                                              *)
(*                                                                         *)
(* git itself is the environment: every external command ends with one of  *)
(* the outcomes subprocess.run can produce, chosen nondeterministically.   *)
(***************************************************************************)
EXTENDS Naturals, Sequences, FiniteSets, TLC

(***************************************************************************)
(* Bounds of the model.                                                    *)
(***************************************************************************)
MaxRepos == 2        \* longest manifest of the single-run specification
MaxRuns == 2         \* successive runs of main() in SpecRuns
MaxReposRuns == 1    \* longest manifest of the multi-run specification

\* Python's None, as a text no data can equal
None == <<"None">>

(***************************************************************************)
(* Text helpers.                                                           *)
(***************************************************************************)
RECURSIVE Cat(_)
\* concatenation of a sequence of texts
Cat(ss) == IF ss = <<>> THEN <<>> ELSE Head(ss) \o Cat(Tail(ss))

RECURSIVE Join(_)
\* ' '.join(argv)
Join(argv) ==
    IF argv = <<>> THEN <<>>
    ELSE IF Len(argv) = 1 THEN Head(argv)
    ELSE Head(argv) \o <<" ">> \o Join(Tail(argv))

\* sub in s  (sub non-empty)
Contains(s, sub) ==
    \E i \in 1..Len(s) :
        /\ i + Len(sub) - 1 <= Len(s)
        /\ SubSeq(s, i, i + Len(sub) - 1) = sub

StartsWith(s, p) == Len(p) <= Len(s) /\ SubSeq(s, 1, Len(p)) = p

Drop(s, n) == SubSeq(s, n + 1, Len(s))

RECURSIVE Replace(_, _, _)
\* str.replace(old, new) for a non-empty old: leftmost, non-overlapping
Replace(s, old, new) ==
    IF s = <<>> THEN <<>>
    ELSE IF StartsWith(s, old) THEN new \o Replace(Drop(s, Len(old)), old, new)
    ELSE <<Head(s)>> \o Replace(Tail(s), old, new)

\* index of the first occurrence of piece c in s, 0 when absent (str.find + 1)
Find(s, c) ==
    IF \E i \in 1..Len(s) : s[i] = c
    THEN CHOOSE i \in 1..Len(s) : s[i] = c /\ \A j \in 1..(i - 1) : s[j] # c
    ELSE 0

Letters == {"a", "b", "c", "d", "e", "f", "g", "h", "i", "j", "k", "l", "m",
            "n", "o", "p", "q", "r", "s", "t", "u", "v", "w", "x", "y", "z"}
Digits == {"0", "1", "2", "3", "4", "5", "6", "7", "8", "9"}

\* code-point order of the characters used in repo names
Ord(c) ==
    CASE c = "-" -> 45
      [] c = "0" -> 48
      [] c = "7" -> 55
      [] c = "a" -> 97
      [] c = "b" -> 98
      [] c = "c" -> 99
      [] OTHER -> 122

RECURSIVE StrLess(_, _)
\* Python's s < t on str: lexicographic by code point
StrLess(s, t) ==
    IF t = <<>> THEN FALSE
    ELSE IF s = <<>> THEN TRUE
    ELSE IF Head(s) = Head(t) THEN StrLess(Tail(s), Tail(t))
    ELSE Ord(Head(s)) < Ord(Head(t))

(***************************************************************************)
(* urllib.parse as build_push_url uses it.                                 *)
(***************************************************************************)
SchemeChars == Letters \cup Digits \cup {"+", "-", "."}

\* quote(c, safe=''): one character percent-encoded unless always safe
QuoteChar(c) ==
    IF c \in Letters \cup Digits \cup {"_", ".", "-", "~"} THEN <<c>>
    ELSE CASE c = "/" -> <<"%", "2", "F">>
           [] c = ":" -> <<"%", "3", "A">>
           [] c = "@" -> <<"%", "4", "0">>
           [] c = "%" -> <<"%", "2", "5">>
           [] OTHER -> <<"%", "X", "X">>

RECURSIVE Quote(_)
Quote(s) == IF s = <<>> THEN <<>> ELSE QuoteChar(Head(s)) \o Quote(Tail(s))

\* urlparse(url) for URLs without params, query or fragment:
\* [scheme, netloc, path]
UrlParse(url) ==
    LET i == Find(url, ":")
        hasScheme == /\ i > 1
                     /\ url[1] \in Letters
                     /\ \A j \in 1..(i - 1) : url[j] \in SchemeChars
        scheme == IF hasScheme THEN SubSeq(url, 1, i - 1) ELSE <<>>
        rest == IF hasScheme THEN Drop(url, i) ELSE url
        hasNetloc == StartsWith(rest, <<"/", "/">>)
        afterSl == IF hasNetloc THEN Drop(rest, 2) ELSE rest
        k == Find(afterSl, "/")
        netloc == IF ~hasNetloc THEN <<>>
                  ELSE IF k = 0 THEN afterSl ELSE SubSeq(afterSl, 1, k - 1)
        path == IF ~hasNetloc THEN rest
                ELSE IF k = 0 THEN <<>> ELSE Drop(afterSl, k - 1)
    IN [scheme |-> scheme, netloc |-> netloc, path |-> path]

\* urlunparse(parsed) for a parsed URL whose netloc is not empty
UrlUnparse(p) ==
    LET path == IF p.path # <<>> /\ Head(p.path) # "/"
                THEN <<"/">> \o p.path ELSE p.path
        url == <<"/", "/">> \o p.netloc \o path
    IN IF p.scheme # <<>> THEN p.scheme \o <<":">> \o url ELSE url

HTTP == <<"h", "t", "t", "p">>
HTTPS == <<"h", "t", "t", "p", "s">>

\* a scheme test that lets every URL through
AnyScheme(scheme) == TRUE

\* parsed.scheme not in {"http", "https"}
SupportedScheme(scheme) == scheme \in {HTTP, HTTPS}

USERINFO_PREFIX == <<"x", "-", "a", "c", "c", "e", "s", "s", "-",
                     "t", "o", "k", "e", "n", ":">>

\* build_push_url(url, token): None for an unsupported scheme
build_push_url(url, token) ==
    LET parsed == UrlParse(url)
        userinfo == USERINFO_PREFIX \o Quote(token)
    IN IF ~SupportedScheme(parsed.scheme) THEN None
       ELSE UrlUnparse([parsed EXCEPT !.netloc = userinfo \o <<"@">> \o parsed.netloc])

MASK == <<"*", "*", "*", "*">>

\* push_url.replace(token, "****")
Redact(push_url, token) == Replace(push_url, token, MASK)

(***************************************************************************)
(* Configuration (module-level tunables, read once per process).           *)
(***************************************************************************)
PUSH_TOKEN_ENV_VARS ==
    <<"BOOTSTRAP_GIT_TOKEN", "GIT_TOKEN", "GITHUB_TOKEN", "GH_TOKEN", "GH_TOKEN_2">>

\* BOOTSTRAP_CLONE_DEPTH and BOOTSTRAP_USE_PARTIAL_CLONE at their defaults
CLONE_DEPTH == <<"1">>
USE_PARTIAL_CLONE == TRUE

TOKEN_A == <<"7">>           \* a token of unreserved characters
TOKEN_B == <<"7", "/">>      \* a token that quote() rewrites

NoEnv == [v \in {PUSH_TOKEN_ENV_VARS[i] : i \in 1..Len(PUSH_TOKEN_ENV_VARS)} |-> None]

\* the process environments the model draws from: no credential variable,
\* the first one set, an empty first one shadowing nothing and a later one set
Environs ==
    { NoEnv,
      [NoEnv EXCEPT !["BOOTSTRAP_GIT_TOKEN"] = TOKEN_A],
      [NoEnv EXCEPT !["BOOTSTRAP_GIT_TOKEN"] = <<>>, !["GH_TOKEN"] = TOKEN_B,
                    !["GH_TOKEN_2"] = TOKEN_A] }

Configs ==
    [PRESERVE_LOCAL : BOOLEAN, CONFIGURE_PUSH_URL : BOOLEAN, environ : Environs]

RECURSIVE FirstToken(_, _)
FirstToken(environ, keys) ==
    IF keys = <<>> THEN None
    ELSE LET value == environ[Head(keys)]
         IN IF value # None /\ value # <<>> THEN value
            ELSE FirstToken(environ, Tail(keys))

\* resolve_push_token(): the first non-empty value, in the tuple's order
resolve_push_token(environ) == FirstToken(environ, PUSH_TOKEN_ENV_VARS)

(***************************************************************************)
(* Manifest and RepoSpec.                                                  *)
(***************************************************************************)
Names == { <<"b">>, <<"a", "b">> }

U_HTTPS == HTTPS \o <<":", "/", "/", "h", "/", "r">>
U_SSH == <<"s", "s", "h", ":", "/", "/", "h", "/", "r">>
U_OLD == HTTP \o <<":", "/", "/", "h", "/", "o">>
Urls == { U_HTTPS, U_SSH }

DEFAULT_REF == <<"main">>

\* a [[repo]] table with name and url (ref left to its default)
Table(n, u) == [table |-> TRUE, keys |-> {"name", "url"}, name |-> n, url |-> u]
\* a [[repo]] table without url
NoUrlTable == [table |-> TRUE, keys |-> {"name"}, name |-> <<"b">>, url |-> None]
\* a repo list element that is not a table
Scalar == [table |-> FALSE, keys |-> {}, name |-> None, url |-> None]

ValidEntries == { Table(n, u) : n \in Names, u \in Urls }
Entries == ValidEntries \cup { NoUrlTable, Scalar }

SeqsUpTo(S, n) == UNION { [1..k -> S] : k \in 0..n }

\* repos.toml: missing, not TOML, or a document whose "repo" key is absent,
\* not a list, or a list of entries
ManifestsUpTo(n) ==
    { [file |-> "missing", key |-> "absent", repo |-> <<>>],
      [file |-> "malformed", key |-> "absent", repo |-> <<>>],
      [file |-> "ok", key |-> "absent", repo |-> <<>>],
      [file |-> "ok", key |-> "notalist", repo |-> <<>>] }
    \cup { [file |-> "ok", key |-> "list", repo |-> r] : r \in SeqsUpTo(Entries, n) }

RepoSpec(r) == [name |-> r.name, url |-> r.url, ref |-> DEFAULT_REF]

\* a loader that drops the entries it cannot use instead of raising
load_manifest_lenient(m) ==
    LET good(r) == r.table /\ {"name", "url"} \subseteq r.keys
        kept == IF m.file = "ok" /\ m.key = "list" THEN SelectSeq(m.repo, good) ELSE <<>>
    IN IF kept = <<>>
       THEN [ok |-> FALSE,
             error |-> <<"repos.toml must contain at least one [[repo]] entry">>]
       ELSE [ok |-> TRUE, specs |-> [i \in 1..Len(kept) |-> RepoSpec(kept[i])]]

\* load_manifest(): [ok |-> TRUE, specs] or [ok |-> FALSE, error]
load_manifest(m) ==
    IF m.file = "missing" THEN [ok |-> FALSE, error |-> <<"Missing manifest: repos.toml">>]
    ELSE IF m.file = "malformed" THEN [ok |-> FALSE, error |-> <<"TOMLDecodeError">>]
    ELSE LET repos == IF m.key = "absent" THEN <<>> ELSE m.repo
         IN IF m.key = "notalist" \/ repos = <<>>
            THEN [ok |-> FALSE,
                  error |-> <<"repos.toml must contain at least one [[repo]] entry">>]
            ELSE IF \E i \in 1..Len(repos) : ~repos[i].table
            THEN [ok |-> FALSE, error |-> <<"Invalid [[repo]] entry (not a table)">>]
            ELSE IF \E i \in 1..Len(repos) : ~({"name", "url"} \subseteq repos[i].keys)
            THEN [ok |-> FALSE, error |-> <<"Invalid [[repo]] entry (needs name + url)">>]
            ELSE [ok |-> TRUE, specs |-> [i \in 1..Len(repos) |-> RepoSpec(repos[i])]]

\* insert x after every element whose name is not greater (stable)
InsertByName(s, x) ==
    LET k == Cardinality({ i \in 1..Len(s) : ~StrLess(x.name, s[i].name) })
    IN SubSeq(s, 1, k) \o <<x>> \o SubSeq(s, k + 1, Len(s))

RECURSIVE SortFrom(_, _)
SortFrom(done, rest) ==
    IF rest = <<>> THEN done ELSE SortFrom(InsertByName(done, Head(rest)), Tail(rest))

\* the loop over the specs in file order
KeepFileOrder(ss) == ss

\* sorted(specs, key=lambda s: s.name)
SortedByName(ss) == SortFrom(<<>>, ss)

\* repo_dir(spec) = DEPS_DIR / spec.name
repo_dir(spec) == <<"deps/">> \o spec.name

(***************************************************************************)
(* The local checkout deps/<name> and the remotes.                         *)
(***************************************************************************)
\* whether the ref tip of the remote at url declares submodules
RemoteHasSubmodules(url) == url = U_HTTPS

\* a commit behind every remote tip
OLD_HEAD == <<"old">>

Absent ==
    [exists |-> FALSE, git |-> FALSE, head |-> None, modified |-> FALSE,
     untracked |-> FALSE, ignored |-> FALSE, gitmodules |-> FALSE, subs |-> FALSE,
     fetchUrl |-> None, pushUrl |-> None]
\* present-not-versioned: a directory without .git
PlainDir == [Absent EXCEPT !.exists = TRUE]
\* present-versioned-clean, behind the remote, with ignored build output
Stale ==
    [Absent EXCEPT !.exists = TRUE, !.git = TRUE, !.head = OLD_HEAD,
                   !.ignored = TRUE, !.fetchUrl = U_OLD]
\* present-versioned-dirty: an uncommitted edit and an untracked file
Dirty ==
    [Absent EXCEPT !.exists = TRUE, !.git = TRUE, !.head = OLD_HEAD,
                   !.modified = TRUE, !.untracked = TRUE, !.fetchUrl = U_OLD]
\* what a killed clone can leave behind
PartialNoGit == PlainDir
PartialGit == [Absent EXCEPT !.exists = TRUE, !.git = TRUE]

Profiles == { Absent, PlainDir, Stale, Dirty }

\* the working tree of a checkout, without the remote configuration
Tree(d) ==
    [exists |-> d.exists, git |-> d.git, head |-> d.head, modified |-> d.modified,
     untracked |-> d.untracked, ignored |-> d.ignored,
     gitmodules |-> d.gitmodules, subs |-> d.subs]

\* a check for the directory instead of its .git
DirectoryExists(d) == d.exists

\* is_git_repo(path): (path / ".git").exists()
is_git_repo(d) == d.git
\* an engine without the submodule path
NeverSubmodules(d) == FALSE

\* has_submodules(path): (path / ".gitmodules").exists()
has_submodules(d) == d.gitmodules
\* what "git status --porcelain" prints something for
StatusReportsChange(d) == d.modified \/ d.untracked

\* a clone without --branch: the remote's default branch is checked out,
\* not the tip of the ref
AfterCloneDefaultBranch(d, url) ==
    [exists |-> TRUE, git |-> TRUE, head |-> <<"default-branch">>, modified |-> FALSE,
     untracked |-> FALSE, ignored |-> FALSE,
     gitmodules |-> RemoteHasSubmodules(url), subs |-> FALSE,
     fetchUrl |-> url, pushUrl |-> None]

\* effects of the git commands when they succeed
AfterClone(d, url) ==
    [exists |-> TRUE, git |-> TRUE, head |-> url, modified |-> FALSE,
     untracked |-> FALSE, ignored |-> FALSE,
     gitmodules |-> RemoteHasSubmodules(url), subs |-> FALSE,
     fetchUrl |-> url, pushUrl |-> None]
AfterSetUrl(d, url) == [d EXCEPT !.fetchUrl = url]
\* git remote set-url origin <url> without --push: the fetch URL is replaced
SetUrlWithoutPushFlag(d, url) == [d EXCEPT !.fetchUrl = url]

\* git remote set-url --push origin <url>
AfterSetPushUrl(d, url) == [d EXCEPT !.pushUrl = url]
\* git reset --hard origin/<ref>, after a fetch from the remote at d.fetchUrl
AfterReset(d) ==
    [d EXCEPT !.head = d.fetchUrl, !.modified = FALSE,
              !.gitmodules = RemoteHasSubmodules(d.fetchUrl)]
\* git clean -ffd: untracked files and directories go, ignored files stay
AfterClean(d) == [d EXCEPT !.untracked = FALSE, !.subs = d.subs /\ d.gitmodules]
AfterSubmoduleUpdate(d) == [d EXCEPT !.subs = TRUE]

(***************************************************************************)
(* State.                                                                  *)
(***************************************************************************)
VARIABLES
    manifest,   \* repos.toml
    cfg,        \* the tunables this process resolved from its environment
    disk,       \* [Names -> checkout]: deps/<name>
    depsDir,    \* whether DEPS_DIR exists
    pc,         \* position of main(): "main", "ensure", a step of ensure_repo,
                \* "hung", "done"
    specs,      \* sorted(specs) of this run
    idx,        \* index of the spec the for loop is at
    log,        \* every line passed to log(), in order
    failures,   \* main()'s failures list
    hist,       \* events of this run: ensure_repo calls and external commands
    exitCode,   \* <<code>> once main() has returned, <<>> before
    run,        \* number of the current run of the tool
    prev        \* what the previous run left: its inputs and final checkouts

vars == <<manifest, cfg, disk, depsDir, pc, specs, idx, log, failures, hist,
          exitCode, run, prev>>

CurSpec == specs[idx]
CurDisk == disk[CurSpec.name]

\* outcomes of subprocess.run(..., check=True, timeout=...) in run():
\* exit 0, non-zero exit, deadline exceeded, or the process could not start
RunOutcomes == {"ok", "fail", "timeout", "oserror"}
\* outcomes of subprocess.run(..., check=False) without timeout in
\* is_dirty_repo: as above, but a slow command is waited for ("slow": it ends
\* after more than DEFAULT_TIMEOUT_S) and a stuck one is waited for forever
StatusOutcomes == {"ok", "fail", "slow", "hang", "oserror"}

\* the log line run() prints before executing
RunLine(logArgv, cwd) ==
    <<"+ ">> \o Join(logArgv)
        \o (IF cwd = None THEN <<>> ELSE <<" (cwd=">> \o cwd \o <<")">>)

\* the entry main() appends to failures for an exception of ensure_repo
FailureOf(out) ==
    CASE out = "timeout" -> "Timeout"
      [] out = "fail" -> "CommandFailed"
      [] OTHER -> "Unexpected"

FailureLine(spec, out, argv) ==
    CASE out = "timeout" -> spec.name \o <<": TIMEOUT running ">> \o Join(argv)
      [] out = "fail" -> spec.name \o <<": FAILED (exit ">> \o <<"1">>
                            \o <<") running: ">> \o Join(argv)
      [] OTHER -> spec.name \o <<": ERROR ">> \o <<"FileNotFoundError">> \o <<": ">>
                     \o <<"[Errno 2] No such file or directory: 'git'">>

Failure(i, spec, out, argv) ==
    [i |-> i, repo |-> spec.name, kind |-> FailureOf(out),
     line |-> FailureLine(spec, out, argv)]

\* an event of the run: a call of ensure_repo (op "ensure_repo"), its
\* completion (op "completed"), or an external command: whether run()
\* announced it, whether it was given a deadline, and how it ended; ret is
\* what is_git_repo (op "ensure_repo") or is_dirty_repo (op "status") returned
Event(i, op, announced, deadline, out, ret) ==
    [i |-> i, op |-> op, announced |-> announced, deadline |-> deadline,
     out |-> out, ret |-> ret]

CommandOps == {"clone", "set_url", "fetch", "status", "reset", "clean",
               "push_url", "submodule_sync", "submodule_update"}
IsCmd(e) == e.op \in CommandOps

(***************************************************************************)
(* The command lines.                                                      *)
(***************************************************************************)
DepthArgs == IF CLONE_DEPTH # <<"0">> THEN << <<"--depth">>, CLONE_DEPTH >> ELSE <<>>

CloneCmd(spec) ==
    << <<"git">>, <<"clone">> >>
        \o (IF USE_PARTIAL_CLONE THEN << <<"--filter=blob:none">> >> ELSE <<>>)
        \o DepthArgs
        \o << <<"--single-branch">>, <<"--branch">>, spec.ref, spec.url, repo_dir(spec) >>
SetUrlCmd(spec) ==
    << <<"git">>, <<"remote">>, <<"set-url">>, <<"origin">>, spec.url >>
FetchCmd(spec) ==
    << <<"git">>, <<"fetch">>, <<"--prune">> >> \o DepthArgs
        \o << <<"origin">>, spec.ref >>
StatusCmd == << <<"git">>, <<"status">>, <<"--porcelain">> >>
ResetCmd(spec) ==
    << <<"git">>, <<"reset">>, <<"--hard">>, <<"origin/">> \o spec.ref >>
CleanCmd == << <<"git">>, <<"clean">>, <<"-ffd">> >>
PushUrlCmd(url) ==
    << <<"git">>, <<"remote">>, <<"set-url">>, <<"--push">>, <<"origin">>, url >>
SubmoduleSyncCmd == << <<"git">>, <<"submodule">>, <<"sync">>, <<"--recursive">> >>
SubmoduleUpdateCmd ==
    << <<"git">>, <<"submodule">>, <<"update">>, <<"--init">>, <<"--recursive">> >>
        \o DepthArgs

(***************************************************************************)
(* Log lines.                                                              *)
(***************************************************************************)
PyBool(b) == IF b THEN <<"True">> ELSE <<"False">>

Banner(c) ==
    << <<"Python: sys.executable">>, <<"Version: 3">>, <<"Root: ROOT">>,
       <<"Manifest: ROOT/repos.toml">>, <<"Deps dir: deps">>,
       <<"Timeout: 1800s | Depth: ">> \o CLONE_DEPTH \o <<" | Partial: ">>
           \o PyBool(USE_PARTIAL_CLONE),
       <<"Preserve local: ">> \o PyBool(c.PRESERVE_LOCAL) >>

RepoBanner(spec) ==
    << <<"\n=== ">> \o spec.name \o <<" @ ">> \o spec.ref \o <<" ===">>,
       <<"URL : ">> \o spec.url,
       <<"DEST: ">> \o repo_dir(spec) >>

SkipResetLine(spec) ==
    <<"Skipping reset/clean for ">> \o spec.name \o <<" (preserve local work).">>
SkipPushLine(spec) ==
    <<"Skipping push URL config for ">> \o spec.name \o <<"; unsupported URL scheme.">>
ConfiguredLine(spec) ==
    <<"Configured push URL for ">> \o spec.name \o <<" (token from env).">>
SubmodulesLine(spec) == <<"--- submodules: ">> \o spec.name \o <<" ---">>
OkLine(spec) == <<"=== OK ">> \o spec.name \o <<" ===">>

FailureHeader == <<"\n=== BOOTSTRAP SUMMARY: PARTIAL FAILURE ===">>
SuccessHeader == <<"\n=== BOOTSTRAP SUMMARY: SUCCESS ===">>

\* the lines main() logs after the loop
SummaryLines(fs) ==
    IF fs # <<>>
    THEN <<FailureHeader>> \o [k \in 1..Len(fs) |-> <<" - ">> \o fs[k].line]
             \o << <<"\nWorkspace is partial. See deps/: deps">> >>
    ELSE << SuccessHeader, <<"Workspace ready: deps">> >>

\* main()'s return values
EXIT_OK == 0
EXIT_MANIFEST == 2
EXIT_PARTIAL == 4

(***************************************************************************)
(* Initial states.                                                         *)
(***************************************************************************)
NoPrev ==
    [valid |-> FALSE, manifest |-> [file |-> "missing", key |-> "absent", repo |-> <<>>],
     cfg |-> [PRESERVE_LOCAL |-> FALSE, CONFIGURE_PUSH_URL |-> FALSE, environ |-> NoEnv],
     trees |-> [n \in Names |-> Tree(Absent)], allOk |-> FALSE]

\* the names the manifest's tables carry
ManifestNames(m) == { m.repo[i].name : i \in 1..Len(m.repo) }

\* a fresh process over a manifest of at most n entries; checkouts exist only
\* for names of the manifest (the engine never looks at any other directory)
InitUpTo(n) ==
    /\ manifest \in ManifestsUpTo(n)
    /\ cfg \in Configs
    /\ disk \in [Names -> Profiles]
    /\ \A nm \in Names : nm \notin ManifestNames(manifest) => disk[nm] = Absent
    /\ depsDir = (\E nm \in Names : disk[nm].exists)
    /\ pc = "main"
    /\ specs = <<>>
    /\ idx = 1
    /\ log = <<>>
    /\ failures = <<>>
    /\ hist = <<>>
    /\ exitCode = <<>>
    /\ run = 1
    /\ prev = NoPrev

Init == InitUpTo(MaxRepos)

(***************************************************************************)
(* main(), up to the loop: banner, load_manifest, sorted().                *)
(***************************************************************************)
MainBegin ==
    /\ pc = "main"
    /\ LET loaded == load_manifest(manifest)
       IN IF loaded.ok
          THEN /\ specs' = SortedByName(loaded.specs)
               /\ log' = log \o Banner(cfg)
               /\ pc' = "ensure"
               /\ exitCode' = exitCode
          ELSE /\ specs' = specs
               /\ log' = log \o Banner(cfg) \o << <<"ERROR: ">> \o loaded.error >>
               /\ pc' = "done"
               /\ exitCode' = <<EXIT_MANIFEST>>
    /\ idx' = 1
    /\ failures' = <<>>
    /\ UNCHANGED <<manifest, cfg, disk, depsDir, hist, run, prev>>

(***************************************************************************)
(* ensure_repo(spec), one action per step.  A step that raises ends the    *)
(* iteration: main() appends the failure and the loop goes on.             *)
(***************************************************************************)
\* main() without continue-on-failure: the first exception ends the loop
RaiseAbortsBatch(out, argv) ==
    /\ failures' = Append(failures, Failure(idx, CurSpec, out, argv))
    /\ idx' = Len(specs) + 1
    /\ pc' = "ensure"

\* a driver that records the failure and tries the same spec again
RaiseThenRetry(out, argv) ==
    /\ failures' = Append(failures, Failure(idx, CurSpec, out, argv))
    /\ idx' = idx
    /\ pc' = "ensure"

\* a driver that swallows the exception: next spec, nothing recorded
RaiseUnrecorded(out, argv) ==
    /\ failures' = failures
    /\ idx' = idx + 1
    /\ pc' = "ensure"

\* the except clauses of main(): record the failure, next spec
Raise(out, argv) ==
    /\ failures' = Append(failures, Failure(idx, CurSpec, out, argv))
    /\ idx' = idx + 1
    /\ pc' = "ensure"

\* an ensure_repo that removes the destination when one of its steps raises
RolledBack(d) == Absent

\* the destination once an exception has left ensure_repo: nothing between
\* the raise and main()'s except clauses touches it
AfterRaise(d) == d

\* run(argv, cwd=cwd, log_cmd=logArgv) after logging preLog; on success the
\* checkout becomes okDisk, okLog is logged and the flow goes to okPc; on an
\* exception the checkout is koDisk
RunStep(op, argv, logArgv, cwd, out, preLog, okLog, okPc, okDisk, koDisk) ==
    /\ log' = log \o preLog \o <<RunLine(logArgv, cwd)>>
                  \o (IF out = "ok" THEN okLog ELSE <<>>)
    /\ hist' = Append(hist, Event(idx, op, TRUE, TRUE, out, FALSE))
    /\ IF out = "ok"
       THEN /\ disk' = [disk EXCEPT ![CurSpec.name] = okDisk]
            /\ pc' = okPc
            /\ UNCHANGED <<failures, idx>>
       ELSE /\ disk' = [disk EXCEPT ![CurSpec.name] = AfterRaise(koDisk)]
            /\ Raise(out, argv)
    /\ UNCHANGED <<manifest, cfg, specs, exitCode, run, prev>>

EnsureRepoBegin ==
    /\ pc = "ensure"
    /\ idx <= Len(specs)
    /\ log' = log \o RepoBanner(CurSpec)
    /\ hist' = Append(hist, Event(idx, "ensure_repo", FALSE, FALSE, "call",
                                  is_git_repo(CurDisk)))
    /\ pc' = IF is_git_repo(CurDisk) THEN "set_url" ELSE "clone"
    /\ UNCHANGED <<manifest, cfg, disk, depsDir, specs, idx, failures, exitCode,
                   run, prev>>

\* clone_repo(spec).  A clone that is killed at its deadline may leave the
\* destination as it was, or a directory without or with .git
clone_repo ==
    /\ pc = "clone"
    /\ depsDir' = TRUE
    /\ \E out \in RunOutcomes :
         \E left \in (IF out = "timeout" THEN {CurDisk, PartialNoGit, PartialGit}
                      ELSE {CurDisk}) :
            RunStep("clone", CloneCmd(CurSpec), CloneCmd(CurSpec), None, out,
                    <<>>, <<>>, "push", AfterClone(CurDisk, CurSpec.url), left)

\* update_repo(spec): git remote set-url origin <url>
update_set_url ==
    /\ pc = "set_url"
    /\ UNCHANGED depsDir
    /\ \E out \in RunOutcomes :
         RunStep("set_url", SetUrlCmd(CurSpec), SetUrlCmd(CurSpec), repo_dir(CurSpec),
                 out, <<>>, <<>>, "fetch", AfterSetUrl(CurDisk, CurSpec.url), CurDisk)

\* update_repo(spec): git fetch --prune [--depth N] origin <ref>
update_fetch ==
    /\ pc = "fetch"
    /\ UNCHANGED depsDir
    /\ \E out \in RunOutcomes :
         RunStep("fetch", FetchCmd(CurSpec), FetchCmd(CurSpec), repo_dir(CurSpec),
                 out, <<>>, <<>>, "dirty", CurDisk, CurDisk)

\* is_dirty_repo(path) for a status query that ended: bool(stdout.strip()).
\* A query that exits non-zero prints nothing on stdout
is_dirty_repo(d, out) == out \in {"ok", "slow"} /\ StatusReportsChange(d)

\* update_repo guarding on the flag alone
SkipResetFlagOnly(preserve, dirty) == preserve

\* the guard of update_repo: PRESERVE_LOCAL or is_dirty_repo(dest)
SkipReset(preserve, dirty) == preserve \/ dirty

\* update_repo(spec): if PRESERVE_LOCAL or is_dirty_repo(dest): log, return
update_dirty_check ==
    /\ pc = "dirty"
    /\ UNCHANGED <<manifest, cfg, disk, depsDir, specs, exitCode, run, prev>>
    /\ IF SkipReset(cfg.PRESERVE_LOCAL, FALSE)
       THEN /\ log' = Append(log, SkipResetLine(CurSpec))
            /\ pc' = "push"
            /\ UNCHANGED <<hist, failures, idx>>
       ELSE \E out \in StatusOutcomes :
              /\ hist' = Append(hist, Event(idx, "status", FALSE, FALSE, out,
                                            is_dirty_repo(CurDisk, out)))
              /\ CASE out = "hang" ->
                        /\ pc' = "hung"
                        /\ UNCHANGED <<log, failures, idx>>
                   [] out = "oserror" ->
                        /\ Raise(out, StatusCmd)
                        /\ UNCHANGED log
                   [] OTHER ->
                        /\ UNCHANGED <<failures, idx>>
                        /\ IF SkipReset(cfg.PRESERVE_LOCAL, is_dirty_repo(CurDisk, out))
                           THEN /\ log' = Append(log, SkipResetLine(CurSpec))
                                /\ pc' = "push"
                           ELSE /\ log' = log
                                /\ pc' = "reset"

\* update_repo(spec): git reset --hard origin/<ref>
update_reset ==
    /\ pc = "reset"
    /\ UNCHANGED depsDir
    /\ \E out \in RunOutcomes :
         RunStep("reset", ResetCmd(CurSpec), ResetCmd(CurSpec), repo_dir(CurSpec),
                 out, <<>>, <<>>, "clean", AfterReset(CurDisk), CurDisk)

\* update_repo(spec): git clean -ffd
update_clean ==
    /\ pc = "clean"
    /\ UNCHANGED depsDir
    /\ \E out \in RunOutcomes :
         RunStep("clean", CleanCmd, CleanCmd, repo_dir(CurSpec),
                 out, <<>>, <<>>, "push", AfterClean(CurDisk), CurDisk)

\* configure_push_url(spec)
configure_push_url ==
    /\ pc = "push"
    /\ UNCHANGED depsDir
    /\ LET token == resolve_push_token(cfg.environ)
           push_url == build_push_url(CurSpec.url, token)
       IN IF ~cfg.CONFIGURE_PUSH_URL \/ token = None
          THEN /\ pc' = "submodules"
               /\ UNCHANGED <<manifest, cfg, disk, specs, idx, log, failures, hist,
                              exitCode, run, prev>>
          ELSE IF push_url = None
          THEN /\ log' = Append(log, SkipPushLine(CurSpec))
               /\ pc' = "submodules"
               /\ UNCHANGED <<manifest, cfg, disk, specs, idx, failures, hist,
                              exitCode, run, prev>>
          ELSE \E out \in RunOutcomes :
                 RunStep("push_url", PushUrlCmd(push_url),
                         PushUrlCmd(Redact(push_url, token)), repo_dir(CurSpec), out,
                         <<>>, <<ConfiguredLine(CurSpec)>>, "submodules",
                         AfterSetPushUrl(CurDisk, push_url), CurDisk)

\* update_submodules_if_any(spec): has_submodules, banner, submodule sync
update_submodules_if_any ==
    /\ pc = "submodules"
    /\ UNCHANGED depsDir
    /\ IF ~has_submodules(CurDisk)
       THEN /\ pc' = "ok"
            /\ UNCHANGED <<manifest, cfg, disk, specs, idx, log, failures, hist,
                           exitCode, run, prev>>
       ELSE \E out \in RunOutcomes :
              RunStep("submodule_sync", SubmoduleSyncCmd, SubmoduleSyncCmd,
                      repo_dir(CurSpec), out, <<SubmodulesLine(CurSpec)>>, <<>>,
                      "sub_update", CurDisk, CurDisk)

\* update_submodules_if_any(spec): submodule update --init --recursive
submodule_update ==
    /\ pc = "sub_update"
    /\ UNCHANGED depsDir
    /\ \E out \in RunOutcomes :
         RunStep("submodule_update", SubmoduleUpdateCmd, SubmoduleUpdateCmd,
                 repo_dir(CurSpec), out, <<>>, <<>>, "ok",
                 AfterSubmoduleUpdate(CurDisk), CurDisk)

\* ensure_repo(spec) logs its completion line and returns to the loop
EnsureRepoEnd ==
    /\ pc = "ok"
    /\ log' = Append(log, OkLine(CurSpec))
    /\ hist' = Append(hist, Event(idx, "completed", FALSE, FALSE, "ok", TRUE))
    /\ idx' = idx + 1
    /\ pc' = "ensure"
    /\ UNCHANGED <<manifest, cfg, disk, depsDir, specs, failures, exitCode, run, prev>>

\* a driver that reports success whatever was collected
ExitCodeAlwaysOk(fs) == EXIT_OK

\* if failures: ... return 4;  ... return 0
ExitCodeFor(fs) == IF fs # <<>> THEN EXIT_PARTIAL ELSE EXIT_OK

\* main() after the loop: the summary and the exit code
MainEnd ==
    /\ pc = "ensure"
    /\ idx > Len(specs)
    /\ log' = log \o SummaryLines(failures)
    /\ exitCode' = <<ExitCodeFor(failures)>>
    /\ pc' = "done"
    /\ UNCHANGED <<manifest, cfg, disk, depsDir, specs, idx, failures, hist, run, prev>>

Next ==
    \/ MainBegin
    \/ EnsureRepoBegin
    \/ clone_repo
    \/ update_set_url
    \/ update_fetch
    \/ update_dirty_check
    \/ update_reset
    \/ update_clean
    \/ configure_push_url
    \/ update_submodules_if_any
    \/ submodule_update
    \/ EnsureRepoEnd
    \/ MainEnd

Spec == Init /\ [][Next]_vars

(***************************************************************************)
(* Successive runs of the tool on the same workspace.  Between two runs    *)
(* the operator may edit the URLs of the manifest and change the           *)
(* environment; the remotes do not change.  Nothing of a process survives  *)
(* it but the checkouts.                                                   *)
(***************************************************************************)
\* every external command of the run so far exited 0 (the status query, which
\* has no deadline, after whatever time it took)
AllCommandsOk == \A k \in 1..Len(hist) : IsCmd(hist[k]) => hist[k].out \in {"ok", "slow"}

\* the manifest with the URLs of its tables edited
UrlEdits(m) ==
    { [m EXCEPT !.repo = r] :
        r \in { r \in [1..Len(m.repo) -> Entries] :
                  \A i \in 1..Len(m.repo) :
                     /\ r[i].table = m.repo[i].table
                     /\ r[i].keys = m.repo[i].keys
                     /\ r[i].name = m.repo[i].name
                     /\ (m.repo[i].url = None => r[i].url = None) } }

NextRun ==
    /\ pc = "done"
    /\ run < MaxRuns
    /\ run' = run + 1
    /\ prev' = [valid |-> TRUE, manifest |-> manifest, cfg |-> cfg,
                trees |-> [n \in Names |-> Tree(disk[n])],
                allOk |-> exitCode = <<EXIT_OK>> /\ AllCommandsOk]
    /\ manifest' \in UrlEdits(manifest)
    /\ cfg' \in Configs
    /\ pc' = "main"
    /\ specs' = <<>>
    /\ idx' = 1
    /\ log' = <<>>
    /\ failures' = <<>>
    /\ hist' = <<>>
    /\ exitCode' = <<>>
    /\ UNCHANGED <<disk, depsDir>>

InitRuns == InitUpTo(MaxReposRuns)

SpecRuns == InitRuns /\ [][Next \/ NextRun]_vars

(***************************************************************************)
(* Vocabulary of the properties.                                           *)
(***************************************************************************)
Returned == pc = "done"
ManifestLoaded == Returned /\ exitCode # <<EXIT_MANIFEST>>

Count(S) == Cardinality(S)
Lines(l) == { k \in 1..Len(log) : log[k] = l }
EventsOf(i, op) == { k \in 1..Len(hist) : hist[k].i = i /\ hist[k].op = op }
FailuresOf(i) == { k \in 1..Len(failures) : failures[k].i = i }

\* the command made ensure_repo raise
Raised(e) ==
    /\ IsCmd(e)
    /\ IF e.op = "status" THEN e.out = "oserror" ELSE e.out # "ok"
RepoRaised(i) == \E k \in 1..Len(hist) : hist[k].i = i /\ Raised(hist[k])
Completed(i) == EventsOf(i, "completed") # {}

\* the tables of the manifest, as specs, in file order
ManifestSpecs == [i \in 1..Len(manifest.repo) |-> RepoSpec(manifest.repo[i])]
SameBag(a, b) ==
    /\ Len(a) = Len(b)
    /\ \A i \in 1..Len(a) :
          Count({ j \in 1..Len(a) : a[j] = a[i] }) = Count({ j \in 1..Len(b) : b[j] = a[i] })

(***************************************************************************)
(* C1  Isolation.  Once main() has returned for a manifest that loaded,    *)
(* ensure_repo was called exactly once for every spec of the manifest;     *)
(* every repo none of whose commands raised ran to its completion line,    *)
(* and the failure list holds one record for each repo that raised and     *)
(* none for any other, whatever the other repos did.                       *)
(***************************************************************************)
C1_Isolation ==
    ManifestLoaded =>
        /\ SameBag(ManifestSpecs, specs)
        /\ \A i \in 1..Len(specs) :
              /\ Count(EventsOf(i, "ensure_repo")) = 1
              /\ RepoRaised(i) <=> FailuresOf(i) # {}
              /\ Count(FailuresOf(i)) <= 1
              /\ ~RepoRaised(i) => Completed(i)
              /\ Count(Lines(OkLine(specs[i])))
                    = Count({ j \in 1..Len(specs) :
                                Completed(j) /\ specs[j].name = specs[i].name })
        /\ \A k \in 1..Len(failures) :
              /\ failures[k].i \in 1..Len(specs)
              /\ failures[k].repo = specs[failures[k].i].name

\* the first repo failed, the second one converged, and main() returned 4
C1_Witness ==
    /\ Returned
    /\ Len(specs) = 2
    /\ RepoRaised(1)
    /\ Completed(2)
    /\ Count(FailuresOf(1)) = 1
    /\ exitCode = <<EXIT_PARTIAL>>

(***************************************************************************)
(* C2  Dirty-preserve.  git reset --hard and git clean are never run for a *)
(* repo in a process with PRESERVE_LOCAL set, nor after is_dirty_repo      *)
(* returned true for that repo in this invocation; in both cases the skip  *)
(* notice is logged when update_repo returns.                              *)
(***************************************************************************)
DirtySeen(i, k) ==
    \E j \in 1..(k - 1) : hist[j].i = i /\ hist[j].op = "status" /\ hist[j].ret

\* update_repo has taken its decision for spec i, and it was to skip
DecidedToSkip(i) ==
    /\ i < idx \/ (i = idx /\ pc \notin {"set_url", "fetch", "dirty"})
    /\ \E k \in EventsOf(i, "fetch") : hist[k].out = "ok"
    /\ cfg.PRESERVE_LOCAL \/ DirtySeen(i, Len(hist) + 1)

C2_DirtyPreserve ==
    /\ \A k \in 1..Len(hist) :
          hist[k].op \in {"reset", "clean"} =>
              ~cfg.PRESERVE_LOCAL /\ ~DirtySeen(hist[k].i, k)
    /\ \A i \in 1..Len(specs) :
          DecidedToSkip(i) =>
              Count(Lines(SkipResetLine(specs[i])))
                  = Count({ j \in 1..Len(specs) :
                              DecidedToSkip(j) /\ specs[j].name = specs[i].name })

\* a dirty checkout went through a whole update with PRESERVE_LOCAL off and
\* still holds its edit and its untracked file
C2_Witness ==
    \E i \in 1..Len(specs) :
        /\ ~cfg.PRESERVE_LOCAL
        /\ DirtySeen(i, Len(hist) + 1)
        /\ Completed(i)
        /\ EventsOf(i, "reset") = {}
        /\ disk[specs[i].name].modified
        /\ disk[specs[i].name].untracked

(***************************************************************************)
(* C3  Token redaction.  With a non-empty resolved token, no line passed   *)
(* to log() during the run contains the literal token, whatever the        *)
(* outcome of the push-URL command: not the announcement of the command,   *)
(* not the "Configured push URL" notice, not the failure summary.          *)
(***************************************************************************)
ResolvedToken == resolve_push_token(cfg.environ)

C3_TokenNeverLogged ==
    ResolvedToken # None =>
        \A k \in 1..Len(log) : ~Contains(log[k], ResolvedToken)

(***************************************************************************)
(* C4  Exit status.  When the manifest is loadable, main() returns 0       *)
(* exactly when no repo raised and nothing is in the failure list, and 4   *)
(* exactly when some repo raised; it returns 4 only after ensure_repo was  *)
(* called for every spec, and the summary it logged before lists every     *)
(* failure after the PARTIAL FAILURE header, in order.                     *)
(***************************************************************************)
\* the document is there, parses, and its repo list is a non-empty list of
\* tables that all carry name and url
ManifestValid(m) ==
    /\ m.file = "ok"
    /\ m.key = "list"
    /\ m.repo # <<>>
    /\ \A i \in 1..Len(m.repo) :
          m.repo[i].table /\ m.repo[i].name # None /\ m.repo[i].url # None

\* the summary of the failures is the tail of the log
SummaryListsFailures ==
    \E h \in Lines(FailureHeader) :
        /\ Len(log) = h + Len(failures) + 1
        /\ \A k \in 1..Len(failures) : log[h + k] = <<" - ">> \o failures[k].line

C4_ExitStatus ==
    (Returned /\ ManifestValid(manifest)) =>
        /\ exitCode \in { <<EXIT_OK>>, <<EXIT_PARTIAL>> }
        /\ exitCode = <<EXIT_OK>> <=> failures = <<>>
        /\ exitCode = <<EXIT_OK>> <=> (\A i \in 1..Len(specs) : ~RepoRaised(i))
        /\ exitCode = <<EXIT_PARTIAL>> =>
              /\ Len(specs) = Len(manifest.repo)
              /\ \A i \in 1..Len(specs) : EventsOf(i, "ensure_repo") # {}
              /\ SummaryListsFailures

\* both repos failed and main() returned 4 after listing the two failures
C4_Witness ==
    /\ Returned
    /\ exitCode = <<EXIT_PARTIAL>>
    /\ Len(failures) = 2
    /\ failures[1].i = 1
    /\ failures[2].i = 2
    /\ SummaryListsFailures

(***************************************************************************)
(* C5  Manifest errors are fatal before any repo work.  With a manifest    *)
(* that is missing, unparsable, without a non-empty repo list, or holding  *)
(* an entry that is not a table or lacks name or url (wherever it stands   *)
(* in the list), main() returns 2, no external command is ever run and no  *)
(* checkout nor the deps directory is created or changed.                  *)
(***************************************************************************)
C5_ManifestErrorsFatal ==
    /\ [](~ManifestValid(manifest) =>
            /\ \A k \in 1..Len(hist) : ~IsCmd(hist[k])
            /\ hist = <<>>
            /\ pc \in {"main", "done"}
            /\ Returned => exitCode = <<EXIT_MANIFEST>>)
    /\ [][~ManifestValid(manifest) => (disk' = disk /\ depsDir' = depsDir)]_vars

\* main() returned 2 for a manifest whose first entry is valid and whose
\* second is not, leaving the first entry's checkout absent
C5_Witness ==
    /\ Returned
    /\ exitCode = <<EXIT_MANIFEST>>
    /\ Len(manifest.repo) = 2
    /\ manifest.repo[1] \in ValidEntries
    /\ manifest.repo[2] \notin ValidEntries
    /\ disk[manifest.repo[1].name] = Absent
    /\ ~depsDir
    /\ hist = <<>>

(***************************************************************************)
(* C6  Timeout classification.  When an external command of a repo runs    *)
(* past the configured deadline, the repo gets exactly one failure record, *)
(* of kind Timeout; no further step of that repo runs, and the batch goes  *)
(* on with the next repo.                                                  *)
(***************************************************************************)
ExceededDeadline(e) == IsCmd(e) /\ e.out \in {"timeout", "slow", "hang"}

C6_TimeoutClassified ==
    Returned =>
        \A k \in 1..Len(hist) :
            ExceededDeadline(hist[k]) =>
                /\ Count(FailuresOf(hist[k].i)) = 1
                /\ \A f \in FailuresOf(hist[k].i) : failures[f].kind = "Timeout"
                /\ \A j \in (k + 1)..Len(hist) : hist[j].i # hist[k].i
                /\ \A i \in 1..Len(specs) : EventsOf(i, "ensure_repo") # {}

(***************************************************************************)
(* C7  Every external command has a deadline.  Each git command the        *)
(* engine starts, the status query of the dirty check included, is given   *)
(* a wall-clock deadline, so main() never waits forever on a command.      *)
(***************************************************************************)
C7_EveryCommandHasDeadline ==
    /\ \A k \in 1..Len(hist) : IsCmd(hist[k]) => hist[k].deadline
    /\ pc # "hung"

(***************************************************************************)
(* C8  Idempotence.  As claimed: a run that follows another run on the     *)
(* same manifest, with unchanged remotes and PRESERVE_LOCAL off in both,   *)
(* leaves every working tree as the first run left it (whatever the        *)
(* commands of the two runs did).                                          *)
(***************************************************************************)
SecondRunSameInputs ==
    /\ Returned
    /\ prev.valid
    /\ prev.manifest = manifest
    /\ ~prev.cfg.PRESERVE_LOCAL
    /\ ~cfg.PRESERVE_LOCAL

TreesAsAfterPreviousRun == \A n \in Names : Tree(disk[n]) = prev.trees[n]

Ascending(names) ==
    \A i \in 1..Len(names) : \A j \in (i + 1)..Len(names) : ~StrLess(names[j], names[i])

C9_DeterministicOrder ==
    /\ (ManifestValid(manifest) /\ pc # "main") =>
          /\ SameBag(ManifestSpecs, specs)
          /\ Ascending([i \in 1..Len(specs) |-> specs[i].name])
    /\ \A k \in 1..Len(hist) : \A l \in (k + 1)..Len(hist) : hist[k].i <= hist[l].i
    /\ \A k \in 1..Len(hist) : hist[k].i <= idx
    /\ \A k \in 1..Len(failures) : \A l \in (k + 1)..Len(failures) :
          failures[k].i < failures[l].i
    /\ Ascending([k \in 1..Len(failures) |-> failures[k].repo])

\* the file lists "b" before "ab"; both failed, "ab" first
C9_Witness ==
    /\ Returned
    /\ Len(manifest.repo) = 2
    /\ manifest.repo[1].name = <<"b">>
    /\ manifest.repo[2].name = <<"a", "b">>
    /\ Len(failures) = 2
    /\ failures[1].repo = <<"a", "b">>
    /\ failures[2].repo = <<"b">>
    /\ hist[1].i = 1
    /\ specs[1].name = <<"a", "b">>

(***************************************************************************)
(* C10  Push-URL configuration is a no-op in its skip cases.  When         *)
(* CONFIGURE_PUSH_URL is off, or no credential variable holds a non-empty  *)
(* value, or the spec's URL is neither http: nor https:, the step runs no  *)
(* command, records no failure, leaves the checkout alone and goes on to   *)
(* the submodule path; it logs the skip notice exactly in the third case   *)
(* when it was reached (configuration on and a token resolved).            *)
(***************************************************************************)
WebUrl(url) == StartsWith(url, HTTP \o <<":">>) \/ StartsWith(url, HTTPS \o <<":">>)

PushSkipCase(spec) ==
    \/ ~cfg.CONFIGURE_PUSH_URL
    \/ \A i \in 1..Len(PUSH_TOKEN_ENV_VARS) :
          cfg.environ[PUSH_TOKEN_ENV_VARS[i]] \in {None, <<>>}
    \/ ~WebUrl(spec.url)

PushSkipNoticeDue(spec) ==
    /\ cfg.CONFIGURE_PUSH_URL
    /\ \E i \in 1..Len(PUSH_TOKEN_ENV_VARS) :
          cfg.environ[PUSH_TOKEN_ENV_VARS[i]] \notin {None, <<>>}
    /\ ~WebUrl(spec.url)

C10_PushSkipIsNoOp ==
    [][(pc = "push" /\ PushSkipCase(CurSpec)) =>
          /\ pc' = "submodules"
          /\ hist' = hist
          /\ failures' = failures
          /\ idx' = idx
          /\ disk' = disk
          /\ log' = IF PushSkipNoticeDue(CurSpec)
                    THEN Append(log, SkipPushLine(CurSpec))
                    ELSE log]_vars

\* an ssh URL with a token resolved: the notice is the last line logged and
\* no push-URL command was run for the repo
C10_Witness ==
    /\ pc = "submodules"
    /\ PushSkipNoticeDue(CurSpec)
    /\ log[Len(log)] = SkipPushLine(CurSpec)
    /\ EventsOf(idx, "push_url") = {}
    /\ CurDisk.pushUrl = None

(***************************************************************************)
(* C11  Every external command is announced.  Every external command of    *)
(* the run, the status query of the dirty check included, was announced    *)
(* by run() on a line of its own before it started: the log holds one      *)
(* "+ ..." line per command executed.                                      *)
(***************************************************************************)
AnnounceLines == { k \in 1..Len(log) : StartsWith(log[k], <<"+ ">>) }
CommandEvents == { k \in 1..Len(hist) : IsCmd(hist[k]) }

C11_EveryCommandAnnounced ==
    /\ \A k \in CommandEvents : hist[k].announced
    /\ Count(AnnounceLines) = Count(CommandEvents)

(***************************************************************************)
(* C12  Push-only credential injection.  Over any sequence of runs: the    *)
(* fetch URL of origin never holds a token (raw or percent-encoded); once  *)
(* clone_repo or update_repo has returned, the fetch URL of the checkout   *)
(* is the spec's URL; and configure_push_url changes neither the fetch URL *)
(* nor the working tree of any checkout.                                   *)
(***************************************************************************)
\* an external command of repo i that exited 0
CmdOk(i, op) == \E k \in EventsOf(i, op) : hist[k].out = "ok"

AllTokens ==
    UNION { { e[PUSH_TOKEN_ENV_VARS[k]] : k \in 1..Len(PUSH_TOKEN_ENV_VARS) } : e \in Environs }
        \ {None, <<>>}

HoldsToken(url) == \E t \in AllTokens : Contains(url, t) \/ Contains(url, Quote(t))

AfterCloneOrUpdate == pc \in {"push", "submodules", "sub_update", "ok"}

C12_PushOnlyInjection ==
    /\ [](\A n \in Names : disk[n].fetchUrl # None => ~HoldsToken(disk[n].fetchUrl))
    /\ [](AfterCloneOrUpdate => CurDisk.fetchUrl = CurSpec.url)
    /\ [][pc = "push" =>
            \A n \in Names : /\ disk'[n].fetchUrl = disk[n].fetchUrl
                             /\ Tree(disk'[n]) = Tree(disk[n])]_vars

\* second run, after the manifest URL was edited: the update repointed origin
\* and the push URL was configured with the token; the fetch URL is the
\* spec's URL and carries no token
C12_Witness ==
    /\ run = 2
    /\ prev.manifest # manifest
    /\ pc = "submodules"
    /\ CmdOk(idx, "set_url")
    /\ CmdOk(idx, "push_url")
    /\ CurDisk.pushUrl # None
    /\ HoldsToken(CurDisk.pushUrl)
    /\ CurDisk.fetchUrl = CurSpec.url
    /\ ~HoldsToken(CurDisk.fetchUrl)

(***************************************************************************)
(* C13  The submodule path after a successful clone or update.  As         *)
(* claimed: in every finished invocation of ensure_repo in which           *)
(* clone_repo or update_repo returned, update_submodules_if_any was        *)
(* executed, whatever PRESERVE_LOCAL is and whatever configure_push_url    *)
(* did (a raise included); with .gitmodules present the sync and update    *)
(* commands were issued.                                                   *)
(***************************************************************************)
\* clone_repo returned, or update_repo returned: after the clean, or early
\* because of the flag or of a dirty tree
CloneOrUpdateReturned(i) ==
    \/ CmdOk(i, "clone")
    \/ /\ CmdOk(i, "fetch")
       /\ \/ cfg.PRESERVE_LOCAL
          \/ \E k \in EventsOf(i, "status") : hist[k].ret
          \/ CmdOk(i, "clean")

PushRaised(i) == \E k \in EventsOf(i, "push_url") : hist[k].out # "ok"

\* update_submodules_if_any was entered: it issued its first command, or it
\* returned and the completion line followed
SubmodulePathRan(i) == Completed(i) \/ EventsOf(i, "submodule_sync") # {}

\* what the submodule path does once entered
SubmoduleCommandsIssued ==
    /\ \A i \in 1..Len(specs) :
          (i < idx /\ CmdOk(i, "submodule_sync")) => EventsOf(i, "submodule_update") # {}
    /\ (pc = "ok" /\ CurDisk.gitmodules) =>
          CmdOk(idx, "submodule_sync") /\ CmdOk(idx, "submodule_update")
    /\ (pc = "ok" /\ ~CurDisk.gitmodules) => EventsOf(idx, "submodule_sync") = {}

C13_SubmodulesWhateverPushDid ==
    /\ \A i \in 1..Len(specs) :
          (i < idx /\ CloneOrUpdateReturned(i)) => SubmodulePathRan(i)
    /\ SubmoduleCommandsIssued

(***************************************************************************)
(* C13 (amended)  As above, for the invocations in which                   *)
(* configure_push_url did not raise (it skipped, or its command            *)
(* succeeded): the submodule path was executed whatever PRESERVE_LOCAL is. *)
(***************************************************************************)
C13_SubmodulesUnlessPushRaised ==
    /\ \A i \in 1..Len(specs) :
          (i < idx /\ CloneOrUpdateReturned(i) /\ ~PushRaised(i)) => SubmodulePathRan(i)
    /\ SubmoduleCommandsIssued

\* a second run with PRESERVE_LOCAL on: the update skipped reset and clean,
\* the push URL was configured, and both submodule commands ran
C13_Witness ==
    /\ run = 2
    /\ cfg.PRESERVE_LOCAL
    /\ pc = "ok"
    /\ CmdOk(idx, "fetch")
    /\ EventsOf(idx, "reset") = {}
    /\ CmdOk(idx, "push_url")
    /\ CurDisk.gitmodules
    /\ CmdOk(idx, "submodule_sync")
    /\ CmdOk(idx, "submodule_update")

(***************************************************************************)
(* C14  No rollback and no deletion.  No step of the engine removes a      *)
(* checkout directory or its .git: a checkout whose clone succeeded is     *)
(* still there whatever push-URL configuration and the submodule path did  *)
(* afterwards, and a repo that was version-controlled when the previous    *)
(* run ended is found version-controlled by this run, which takes the      *)
(* update path and issues no clone for it.                                 *)
(***************************************************************************)
C14_NoRollbackNoDeletion ==
    /\ [][\A n \in Names : /\ disk[n].exists => disk'[n].exists
                           /\ disk[n].git => disk'[n].git]_vars
    /\ [](\A i \in 1..Len(specs) :
            CmdOk(i, "clone") => disk[specs[i].name].exists /\ disk[specs[i].name].git)
    /\ [](\A i \in 1..Len(specs) :
            (prev.valid /\ prev.trees[specs[i].name].git) =>
                /\ \A k \in EventsOf(i, "ensure_repo") : hist[k].ret
                /\ EventsOf(i, "clone") = {})

\* the clone succeeded, the push-URL command failed, the run is over and the
\* cloned checkout is in place at the tip of the ref
C14_Witness ==
    /\ Returned
    /\ Len(specs) = 1
    /\ CmdOk(1, "clone")
    /\ PushRaised(1)
    /\ FailuresOf(1) # {}
    /\ disk[specs[1].name].exists
    /\ disk[specs[1].name].git
    /\ disk[specs[1].name].head = specs[1].url

(***************************************************************************)
(* C15  Clone-or-update decision.  In each invocation of ensure_repo the   *)
(* is_git_repo check is made once, before any command of that repo, and    *)
(* it decides the path: the clone path is taken exactly when the           *)
(* destination has no .git (absent, or a plain directory), the update path *)
(* exactly when it has one; never both, and no clone command is issued     *)
(* against a destination that has a .git.                                  *)
(***************************************************************************)
UpdateOps == {"set_url", "fetch", "status", "reset", "clean"}
UpdateEvents(i) == { k \in 1..Len(hist) : hist[k].i = i /\ hist[k].op \in UpdateOps }
EventsOfRepo(i) == { k \in 1..Len(hist) : hist[k].i = i }

C15_CloneOrUpdateDecision ==
    /\ \A i \in 1..Len(specs) :
          /\ Count(EventsOf(i, "ensure_repo")) <= 1
          /\ EventsOfRepo(i) # {} =>
                \E d \in EventsOf(i, "ensure_repo") :
                   /\ \A k \in EventsOfRepo(i) : d <= k
                   /\ EventsOf(i, "clone") # {} => ~hist[d].ret
                   /\ UpdateEvents(i) # {} => hist[d].ret
          /\ ~(EventsOf(i, "clone") # {} /\ UpdateEvents(i) # {})
          /\ Count(EventsOf(i, "clone")) <= 1
          /\ i < idx => (EventsOf(i, "clone") # {} \/ EventsOf(i, "set_url") # {})
    /\ pc = "clone" => ~CurDisk.git /\ ~hist[Len(hist)].ret
    /\ pc = "set_url" => CurDisk.git /\ hist[Len(hist)].ret

\* two repos in one run: the first had no .git and was cloned, the second
\* was a versioned checkout and was updated through to the clean
C15_Witness ==
    /\ Returned
    /\ Len(specs) = 2
    /\ specs[1].name # specs[2].name
    /\ ~hist[1].ret
    /\ CmdOk(1, "clone")
    /\ UpdateEvents(1) = {}
    /\ CmdOk(2, "set_url")
    /\ CmdOk(2, "clean")
    /\ EventsOf(2, "clone") = {}
    /\ \A k \in EventsOf(2, "ensure_repo") : hist[k].ret

(***************************************************************************)
(* C16  Update-path step order.  Within one update_repo the commands are   *)
(* issued in the order set-url, fetch, status, reset, clean, each at most  *)
(* once; the reset only after the fetch succeeded, the clean only after    *)
(* the reset succeeded; and a step that raises is the last thing done for  *)
(* its repo: nothing of the update path, no push-URL command and no        *)
(* submodule command follows it.                                           *)
(***************************************************************************)
\* the event before event l is the named step of the same repo
Preceded(l, op) == l > 1 /\ hist[l - 1].i = hist[l].i /\ hist[l - 1].op = op

C16_UpdateStepOrder ==
    /\ \A l \in 1..Len(hist) :
          /\ hist[l].op = "set_url" => Preceded(l, "ensure_repo")
          /\ hist[l].op = "fetch" => Preceded(l, "set_url") /\ hist[l - 1].out = "ok"
          /\ hist[l].op = "status" =>
                Preceded(l, "fetch") /\ hist[l - 1].out = "ok" /\ ~cfg.PRESERVE_LOCAL
          /\ hist[l].op = "reset" =>
                /\ Preceded(l, "status")
                /\ ~hist[l - 1].ret
                /\ ~Raised(hist[l - 1])
                /\ l > 2 /\ hist[l - 2].op = "fetch" /\ hist[l - 2].out = "ok"
          /\ hist[l].op = "clean" => Preceded(l, "reset") /\ hist[l - 1].out = "ok"
    /\ \A k \in 1..Len(hist) : \A l \in (k + 1)..Len(hist) :
          hist[k].i = hist[l].i =>
             /\ IsCmd(hist[k]) => hist[k].op # hist[l].op
             /\ ~Raised(hist[k])

\* one repo failed at the fetch, and nothing followed for it; the next went
\* through the five steps in order
C16_Witness ==
    /\ Returned
    /\ Len(specs) = 2
    /\ CmdOk(1, "set_url")
    /\ \E k \in EventsOf(1, "fetch") : hist[k].out = "fail" /\ k = 3
    /\ Count(EventsOfRepo(1)) = 3
    /\ CmdOk(2, "set_url")
    /\ CmdOk(2, "fetch")
    /\ \E k \in EventsOf(2, "status") : hist[k].out = "ok"
    /\ CmdOk(2, "reset")
    /\ CmdOk(2, "clean")

(***************************************************************************)
(* C17  Full clean.  After an update that was not preserved (the flag off  *)
(* and the dirty check false) and whose steps all succeeded, the working   *)
(* tree holds no untracked file and no ignored file.                       *)
(***************************************************************************)
\* update_repo of the current repo has just returned from its clean
UnpreservedUpdateDone ==
    /\ pc = "push"
    /\ ~cfg.PRESERVE_LOCAL
    /\ CmdOk(idx, "set_url")
    /\ CmdOk(idx, "fetch")
    /\ \E k \in EventsOf(idx, "status") : hist[k].out = "ok" /\ ~hist[k].ret
    /\ CmdOk(idx, "reset")
    /\ CmdOk(idx, "clean")

C17_FullClean ==
    UnpreservedUpdateDone => ~CurDisk.untracked /\ ~CurDisk.ignored

(***************************************************************************)
(* C18  Dirty check on a failing status query.  Whenever the status query  *)
(* fails (a non-zero exit, or git cannot be started), is_dirty_repo        *)
(* returns false and raises nothing: with PRESERVE_LOCAL off the update    *)
(* goes on to the reset, and no failure is recorded for the query.         *)
(***************************************************************************)
StatusFailed(e) == e.op = "status" /\ e.out \in {"fail", "oserror"}

C18_StatusFailureMeansClean ==
    \A k \in 1..Len(hist) :
       StatusFailed(hist[k]) =>
          /\ ~hist[k].ret
          /\ IF k = Len(hist)
             THEN pc = "reset" /\ idx = hist[k].i /\ FailuresOf(idx) = {}
             ELSE hist[k + 1].i = hist[k].i /\ hist[k + 1].op = "reset"

(***************************************************************************)
(* C19  The push destination tracks the manifest across runs.  Whenever    *)
(* ensure_repo completes for a repo, in any run, origin either has no      *)
(* push URL of its own, or its push URL is the credential-bearing form of  *)
(* the spec's current URL built from the token resolved in this run.       *)
(***************************************************************************)
C19_PushUrlTracksManifest ==
    pc = "ok" =>
       \/ CurDisk.pushUrl = None
       \/ /\ ResolvedToken # None
          /\ WebUrl(CurSpec.url)
          /\ CurDisk.pushUrl = build_push_url(CurSpec.url, ResolvedToken)

(***************************************************************************)
(* C20  Exactly one outcome per repo.  Once main() has returned for a      *)
(* manifest that loaded, every spec has either its completion line or      *)
(* exactly one failure record, never both and never neither; the "=== OK"  *)
(* lines of the log are those of the completed specs; and a spec completed *)
(* only if clone-or-update returned, configure_push_url did not raise and  *)
(* the submodule path did not raise.                                       *)
(***************************************************************************)
OkLines == { k \in 1..Len(log) : \E i \in 1..Len(specs) : log[k] = OkLine(specs[i]) }
CompletedSpecs == { i \in 1..Len(specs) : Completed(i) }

C20_ExactlyOneOutcome ==
    /\ ManifestLoaded =>
          /\ \A i \in 1..Len(specs) :
                /\ Completed(i) \/ FailuresOf(i) # {}
                /\ ~(Completed(i) /\ FailuresOf(i) # {})
                /\ Count(FailuresOf(i)) <= 1
                /\ Count(EventsOf(i, "completed")) <= 1
          /\ Count(OkLines) = Count(CompletedSpecs)
          /\ Len(failures) + Count(CompletedSpecs) = Len(specs)
    /\ \A i \in 1..Len(specs) :
          Completed(i) =>
             /\ CloneOrUpdateReturned(i)
             /\ \A k \in EventsOfRepo(i) : ~Raised(hist[k])
             /\ \A k \in EventsOfRepo(i) :
                   hist[k].op \in {"push_url", "submodule_sync", "submodule_update"}
                       => hist[k].out = "ok"
             /\ CmdOk(i, "submodule_sync") => CmdOk(i, "submodule_update")
             /\ Lines(OkLine(specs[i])) # {}

\* two repos, one of each outcome: the first completed with its push URL
\* configured and its submodules updated, the second failed
C20_Witness ==
    /\ ManifestLoaded
    /\ Len(specs) = 2
    /\ Completed(1)
    /\ CmdOk(1, "push_url")
    /\ CmdOk(1, "submodule_update")
    /\ FailuresOf(1) = {}
    /\ ~Completed(2)
    /\ Count(FailuresOf(2)) = 1
    /\ Count(OkLines) = 1

====
